---------------------------- MODULE Spec2Model ----------------------------
(***************************************************************************)
(* The adaptive feedback loop of the AI rule intelligence platform:        *)
(*   - the persisted segment table rl_env/city_reward_table.json,          *)
(*   - the feedback table of the rules database,                           *)
(*   - the live path   AdaptiveFeedbackSystem.process_feedback,            *)
(*   - the replay path sync_feedback_from_mcp_to_env calling               *)
(*     CityAdaptiveEnv.update_city_weights_from_feedback,                  *)
(*   - the POST /feedback endpoint that drives the live path,              *)
(*   - the serving path POST /run_case: MCPClient.query_rules over the     *)
(*     rules table, the policy's confidence and its adjustment by          *)
(*     AdaptiveFeedbackSystem.adjust_confidence_score,                     *)
(*   - the episodes of CityAdaptiveEnv (reset, step) after a sync.         *)
(*                                                                         *)
(* Weights and rewards are Python floats in the source.  Here they are     *)
(* fixed-point numbers in ten-thousandths (Unit = 1.0), so 0.05 is 500,    *)
(* 0.1 is 1000 and 2.0 is 20000; products and quotients are truncated.     *)
(***************************************************************************)
EXTENDS Integers, Sequences, FiniteSets, TLC

VARIABLES
    file,    \* rl_env/city_reward_table.json: [exists, data], data a dict city -> entry
    store,   \* rows of the feedback table, in insertion order
    envw,    \* CityAdaptiveEnv.city_reward_weights of the training process
    queue,   \* feedback_records still to be replayed by the running sync
    pc,      \* per request handler: position inside POST /feedback
    inst,    \* per request handler: AdaptiveFeedbackSystem.reward_weights
    req,     \* per request handler: the FeedbackInput being handled
    resp,    \* per request handler: the status of the last response
    last,    \* history: the last ingest event and the table it was applied to
    run,     \* history: the current / last sync run
    n,       \* number of operations started since Init (bounds the model)
    rules,   \* rows of the rules table, in table order
    agent,   \* state.rl_agent is loaded (TRUE) or None (FALSE)
    served,  \* the last answer of the serving path: query_rules or POST /run_case
    episode  \* CityAdaptiveEnv: current_city, state and the reward of the last step

vars == <<file, store, envw, queue, pc, inst, req, resp, last, run, n,
          rules, agent, served, episode>>

\* what the feedback loop never writes
serving == <<rules, agent, served, episode>>

----------------------------------------------------------------------------
(* Bounds of the model *)

MaxOps == 3

----------------------------------------------------------------------------
(* Program constants, in ten-thousandths where they are floats *)

Unit == 100 * 100

DELTA_UP == 500
DELTA_DOWN == 300
WEIGHT_MIN == 1000
WEIGHT_MAX == 20000
NORMALIZE_MAX == 20000
ACTIVE_ABOVE == 5

Actions == 0 .. 2

\* CityAdaptiveEnv.city_map, cut to one of its six cities
city_map == {"Mumbai"}

\* the cities feedback arrives for: one of city_map and one outside it
Cities == city_map \cup {"Riverton"}

\* FeedbackInput.user_feedback is validated against ^(up|down)$
EndpointTypes == {"up", "down"}

\* Feedback.feedback_type is an unconstrained String column
StoredTypes == EndpointTypes \cup {"other"}

Max(a, b) == IF a >= b THEN a ELSE b
Min(a, b) == IF a <= b THEN a ELSE b

----------------------------------------------------------------------------
(* Output reports.  shape "none": no report (None); "empty": the dict {};  *)
(* "dict": a non-empty dict, rules = len(rules_applied), -1 when the key   *)
(* is missing.                                                             *)

NoReport == [shape |-> "none", rules |-> -1]
EmptyReport == [shape |-> "empty", rules |-> -1]
Report(k) == [shape |-> "dict", rules |-> k]

\* one report per bucket of the heuristic (0, 1..2, >2 rules shown)
EndpointReports == {Report(0), Report(1), Report(3)}

----------------------------------------------------------------------------
(* The segment table *)

DefaultEntry ==
    [base_reward |-> Unit,
     action_weights |-> [a \in Actions |-> Unit],
     positive_feedback_count |-> 0,
     negative_feedback_count |-> 0,
     total_cases |-> 0]

EmptyTable == [c \in {} |-> DefaultEntry]

NoFile == [exists |-> FALSE, data |-> EmptyTable]

\* a variant that truncates the file and leaves the content unwritten
SavedEmpty(w) == [exists |-> TRUE, data |-> EmptyTable]

Saved(w) == [exists |-> TRUE, data |-> w]

\* AdaptiveFeedbackSystem._load_reward_weights
AfsLoad(f) == IF f.exists THEN f.data ELSE EmptyTable

\* the default table CityAdaptiveEnv._load_reward_weights builds
EnvDefaults == [c \in city_map |-> DefaultEntry]

\* CityAdaptiveEnv._load_reward_weights: the table the env holds
EnvLoad(f) == IF f.exists THEN f.data ELSE EnvDefaults

\* CityAdaptiveEnv._load_reward_weights: the file after the load
EnvLoadFile(f) == IF f.exists THEN f ELSE Saved(EnvDefaults)

EntryOf(w, city) == IF city \in DOMAIN w THEN w[city] ELSE DefaultEntry

\* (mutant) every city of the table shares the one entry object
PutShared(w, city, e) == [c \in DOMAIN w \cup {city} |-> e]

\* self.reward_weights[city] = ... / city_data[...] = ...: the dict with one entry replaced
Put(w, city, e) == [c \in DOMAIN w \cup {city} |-> IF c = city THEN e ELSE w[c]]

----------------------------------------------------------------------------
(* Live path: AdaptiveFeedbackSystem *)

\* AdaptiveFeedbackSystem._infer_action_from_output
InferLive(r) ==
    IF r.shape = "dict" /\ r.rules > 2 THEN 2
    ELSE IF r.shape = "dict" /\ r.rules > 0 THEN 1
    ELSE 0

\* (mutant) the lower bound of the clamp is dropped
ClampNoFloor(x) == Min(WEIGHT_MAX, x)

\* max(0.1, min(2.0, x))
Clamp(x) == Max(WEIGHT_MIN, Min(WEIGHT_MAX, x))

\* a variant whose rejection step is as large as the approval step
LiveDeltaSymmetric(ft) == IF ft = "up" THEN DELTA_UP ELSE 0 - DELTA_UP

LiveDelta(ft) == IF ft = "up" THEN DELTA_UP ELSE 0 - DELTA_DOWN

LiveWeight(old, ft) == Clamp(old + LiveDelta(ft))

\* (mutant) the rejection counter is bumped on every event
LiveCountsBoth(e, ft) ==
    IF ft = "up"
    THEN [e EXCEPT !.total_cases = @ + 1, !.positive_feedback_count = @ + 1,
                   !.negative_feedback_count = @ + 1]
    ELSE [e EXCEPT !.total_cases = @ + 1, !.negative_feedback_count = @ + 1]

LiveCounts(e, ft) ==
    IF ft = "up"
    THEN [e EXCEPT !.total_cases = @ + 1, !.positive_feedback_count = @ + 1]
    ELSE [e EXCEPT !.total_cases = @ + 1, !.negative_feedback_count = @ + 1]

\* process_feedback steps 2-4 on the instance's table
LiveUpdate(w, city, ft, action) ==
    LET e == LiveCounts(EntryOf(w, city), ft)
        aw == [e.action_weights EXCEPT ![action] = LiveWeight(@, ft)]
    IN  Put(w, city, [e EXCEPT !.action_weights = aw])

----------------------------------------------------------------------------
(* Replay path: CityAdaptiveEnv and sync_feedback_from_mcp_to_env *)

\* the action extraction inside sync_feedback_from_mcp_to_env
InferReplay(r) ==
    IF r.shape = "dict" /\ r.rules > 2 THEN 2
    ELSE IF r.shape = "dict" /\ r.rules \in {-1, 0} THEN 0
    ELSE 1

ReplayCounts(e, ft) ==
    IF ft = "up"
    THEN [e EXCEPT !.total_cases = @ + 1, !.positive_feedback_count = @ + 1]
    ELSE IF ft = "down"
    THEN [e EXCEPT !.total_cases = @ + 1, !.negative_feedback_count = @ + 1]
    ELSE [e EXCEPT !.total_cases = @ + 1]

ReplayWeight(old, ft) ==
    IF ft = "up" THEN (old * 11) \div 10
    ELSE IF ft = "down" THEN (old * 9) \div 10
    ELSE old

MaxWeight(aw) == CHOOSE m \in {aw[a] : a \in Actions} : \A a \in Actions : aw[a] <= m

Normalize(aw) ==
    LET m == MaxWeight(aw)
    IN  IF m > NORMALIZE_MAX
        THEN [a \in Actions |-> (aw[a] * NORMALIZE_MAX) \div m]
        ELSE aw

ReplayBase(e) ==
    LET total_feedback == e.positive_feedback_count + e.negative_feedback_count
    IN  IF total_feedback > 0
        THEN (Unit \div 2) + (e.positive_feedback_count * Unit) \div total_feedback
        ELSE e.base_reward

\* CityAdaptiveEnv.update_city_weights_from_feedback on the env's table
ReplayUpdate(w, city, action, ft) ==
    LET e == ReplayCounts(EntryOf(w, city), ft)
        aw == Normalize([e.action_weights EXCEPT ![action] = ReplayWeight(@, ft)])
        e2 == [e EXCEPT !.action_weights = aw]
    IN  Put(w, city, [e2 EXCEPT !.base_reward = ReplayBase(e2)])

----------------------------------------------------------------------------
(* History *)

NoEvent == [op |-> "none", city |-> "", ft |-> "", action |-> 0, before |-> EmptyTable]

Event(op, city, ft, action, before) ==
    [op |-> op, city |-> city, ft |-> ft, action |-> action, before |-> before]

NoRun == [phase |-> "none", start |-> EmptyTable, again |-> FALSE, learn |-> FALSE]

\* a row of the feedback table (the columns the replay reads)
Row(city, ft, r) == [city |-> city, feedback_type |-> ft, full_output |-> r]

Rows(row, k) == [i \in 1 .. k |-> row]

\* the request handlers (threads of the server's pool) that may run at once
Procs == {1, 2}

NoReq == Row("", "", NoReport)

\* the JSON body of a /feedback response: status, and whether
\* adaptation_summary is present
NoResp == [status |-> "none", summary |-> FALSE]
Success(summary) == [status |-> "success", summary |-> summary]
Http500 == [status |-> "error", summary |-> FALSE]

----------------------------------------------------------------------------
(* Confidence adjustment: AdaptiveFeedbackSystem on the serving path *)

\* approval_rate of get_city_statistics, kept as the fraction
\* positive_feedback_count / max(1, total_cases)
ApprovalRate(e) == [num |-> e.positive_feedback_count, den |-> Max(1, e.total_cases)]

\* approval_rate >= pct / 100
RateAtLeast(rate, pct) == 100 * rate.num >= pct * rate.den

\* a variant whose middle band opens at 0.70 instead of closing there
CalculateConfidenceAdjustmentOpen(rate) ==
    IF RateAtLeast(rate, 85) THEN 11000
    ELSE IF 100 * rate.num > 70 * rate.den THEN 10000
    ELSE IF RateAtLeast(rate, 50) THEN 9000
    ELSE 8000

\* AdaptiveFeedbackSystem._calculate_confidence_adjustment, in ten-thousandths
CalculateConfidenceAdjustment(rate) ==
    IF RateAtLeast(rate, 85) THEN 11000
    ELSE IF RateAtLeast(rate, 70) THEN 10000
    ELSE IF RateAtLeast(rate, 50) THEN 9000
    ELSE 8000

\* get_city_statistics(city)["confidence_multiplier"], for a city of the table
ConfidenceMultiplier(w, city) == CalculateConfidenceAdjustment(ApprovalRate(w[city]))

\* a variant without the cap
AdjustConfidenceScoreUncapped(w, base_confidence, city) ==
    IF city \notin DOMAIN w THEN base_confidence
    ELSE (base_confidence * ConfidenceMultiplier(w, city)) \div Unit

\* AdaptiveFeedbackSystem.adjust_confidence_score: the adjusted confidence
AdjustConfidenceScore(w, base_confidence, city) ==
    IF city \notin DOMAIN w THEN base_confidence
    ELSE Min(Unit, (base_confidence * ConfidenceMultiplier(w, city)) \div Unit)

\* round(confidence_score, 3) of the explainer: ten-thousandths to thousandths
Round3(x) == ((x + 5) \div 10) * 10

----------------------------------------------------------------------------
(* The condition matcher: MCPClient.query_rules over the rules table *)

\* a rule's condition on a numeric key: missing, a {"min", "max"} dict, a number
NoCond == [kind |-> "none", min |-> 0, max |-> 0]
Range(lo, hi) == [kind |-> "range", min |-> lo, max |-> hi]
Number(v) == [kind |-> "number", min |-> v, max |-> v]

\* a rule's condition on location: missing, a list, a single string
NoLocation == [kind |-> "none", values |-> {}]
LocationList(S) == [kind |-> "list", values |-> S]
LocationStr(v) == [kind |-> "str", values |-> {v}]

Rule(id, city, location, road_width_m, plot_area_sqm) ==
    [id |-> id, city |-> city, location |-> location,
     road_width_m |-> road_width_m, plot_area_sqm |-> plot_area_sqm]

\* the golden records of populate_db.py, in insertion order
RULES_DATA ==
    << Rule("MUM-FSI-SUBURBS-R18-27", "Mumbai", LocationList({"urban", "suburban"}),
            Range(18, 27), NoCond),
       Rule("MUM-LOS-1001-2500", "Mumbai", NoLocation, NoCond, Range(1001, 2500)),
       Rule("PUNE-SETBACK-001", "Pune", NoLocation, Range(9, 15), Range(501, 1000)),
       Rule("AHM-HEIGHT-001", "Ahmedabad", NoLocation, Range(12, 18), NoCond) >>

\* further rows of the rules table: the bands next to the golden Mumbai
\* bands, a rule on an exact road width and a rule on a single location
ADJACENT_RULES ==
    << Rule("MUM-FSI-R9-18", "Mumbai", NoLocation, Range(9, 18), NoCond),
       Rule("MUM-LOS-2500-5000", "Mumbai", NoLocation, NoCond, Range(2500, 5000)),
       Rule("PUNE-ROAD-9", "Pune", LocationStr("rural"), Number(9), NoCond) >>

\* the rules tables of the model
RuleTables == {<< >>, RULES_DATA, RULES_DATA \o ADJACENT_RULES, ADJACENT_RULES \o RULES_DATA}

\* a parameter of a case: given with a value, or not in the parameters dict
Given(v) == [present |-> TRUE, value |-> v]
NotGiven == [present |-> FALSE, value |-> 0]
NoLocationGiven == [present |-> FALSE, value |-> ""]

Parameters(road_width, plot_size, location) ==
    [road_width |-> road_width, plot_size |-> plot_size, location |-> location]

NoParameters == Parameters(NotGiven, NotGiven, NoLocationGiven)

\* lower() of the city names of the model
Lower(s) ==
    CASE s = "Mumbai" -> "mumbai"
      [] s = "Pune" -> "pune"
      [] s = "Ahmedabad" -> "ahmedabad"
      [] s = "Riverton" -> "riverton"
      [] OTHER -> s

\* Rule.city.ilike(city): case-insensitive LIKE, "%" matches every string
ILike(value, pattern) == pattern = "%" \/ Lower(value) = Lower(pattern)

\* the road width check fails
RoadFails(rule, parameters) ==
    /\ parameters.road_width.present
    /\ rule.road_width_m.kind # "none"
    /\ IF rule.road_width_m.kind = "range"
       THEN ~ (rule.road_width_m.min <= parameters.road_width.value
               /\ parameters.road_width.value <= rule.road_width_m.max)
       ELSE parameters.road_width.value # rule.road_width_m.min

\* the plot size check fails
PlotFails(rule, parameters) ==
    /\ parameters.plot_size.present
    /\ rule.plot_area_sqm.kind # "none"
    /\ IF rule.plot_area_sqm.kind = "range"
       THEN ~ (rule.plot_area_sqm.min <= parameters.plot_size.value
               /\ parameters.plot_size.value <= rule.plot_area_sqm.max)
       ELSE parameters.plot_size.value # rule.plot_area_sqm.min

\* the location check fails
LocationFails(rule, parameters) ==
    /\ parameters.location.present
    /\ rule.location.kind # "none"
    /\ parameters.location.value \notin rule.location.values

\* a variant that also drops a rule lacking a key the parameters give
MatchesAllKeys(rule, parameters) ==
    /\ ~ RoadFails(rule, parameters)
    /\ ~ PlotFails(rule, parameters)
    /\ ~ LocationFails(rule, parameters)
    /\ parameters.road_width.present => rule.road_width_m.kind # "none"
    /\ parameters.plot_size.present => rule.plot_area_sqm.kind # "none"
    /\ parameters.location.present => rule.location.kind # "none"

\* the matches flag of one rule at the end of the loop body
Matches(rule, parameters) ==
    /\ ~ RoadFails(rule, parameters)
    /\ ~ PlotFails(rule, parameters)
    /\ ~ LocationFails(rule, parameters)

\* city_rules: the rows the city filter selects, in table order
CityRules(db, city) ==
    LET OfCity(r) == ILike(r.city, city) IN SelectSeq(db, OfCity)

\* a variant that collects the rules key by key: those passing the road
\* check, then those passing the plot check, then those passing the location check
AllMatchingPerKey(db, city, parameters) ==
    LET RoadOk(r) == ~ RoadFails(r, parameters)
        PlotOk(r) == ~ PlotFails(r, parameters)
        LocationOk(r) == ~ LocationFails(r, parameters)
    IN SelectSeq(CityRules(db, city), RoadOk)
         \o SelectSeq(CityRules(db, city), PlotOk)
         \o SelectSeq(CityRules(db, city), LocationOk)

\* all_matching_rules: one pass over city_rules
AllMatching(db, city, parameters) ==
    LET Ok(r) == Matches(r, parameters) IN SelectSeq(CityRules(db, city), Ok)

RECURSIVE Dedupe(_)
\* list({rule.id: rule for rule in s}.values()): a key keeps the position of
\* its first occurrence and the value of its last
Dedupe(s) ==
    IF s = << >> THEN << >>
    ELSE LET id == s[1].id
             Same(r) == r.id = id
             Other(r) == r.id # id
             same == SelectSeq(s, Same)
         IN <<same[Len(same)]>> \o Dedupe(SelectSeq(Tail(s), Other))

\* MCPClient.query_rules
QueryRules(db, city, parameters) == Dedupe(AllMatching(db, city, parameters))

\* [rule.id for rule in matching_rules]
Ids(s) == [i \in 1 .. Len(s) |-> s[i].id]

----------------------------------------------------------------------------
(* The training environment: CityAdaptiveEnv.step *)

Abs(x) == IF x < 0 THEN 0 - x ELSE x

\* optimal_action of _calculate_reward
OptimalAction(plot_size, location, road_width) ==
    IF plot_size > 2000 /\ road_width > 18 /\ location = 0 THEN 2
    ELSE IF plot_size > 1000 /\ road_width > 12 THEN 1
    ELSE 0

\* CityAdaptiveEnv._calculate_reward, in whole reward points
CalculateReward(plot_size, location, road_width, action) ==
    LET optimal_action == OptimalAction(plot_size, location, road_width)
    IN IF action = optimal_action THEN 10
       ELSE IF Abs(action - optimal_action) = 1 THEN 2
       ELSE 0 - 5

\* city_data of step: the city's entry, or the literal default
StepCityData(w, city) ==
    IF city \in DOMAIN w THEN w[city]
    ELSE [base_reward |-> Unit, action_weights |-> [a \in Actions |-> Unit]]

\* a variant that leaves the action weight out
WeightedRewardBaseOnly(w, city, plot_size, location, road_width, action) ==
    CalculateReward(plot_size, location, road_width, action) * StepCityData(w, city).base_reward

\* weighted_reward of step, in ten-thousandths of a reward point
WeightedReward(w, city, plot_size, location, road_width, action) ==
    CalculateReward(plot_size, location, road_width, action)
      * ((StepCityData(w, city).base_reward * StepCityData(w, city).action_weights[action])
           \div Unit)

----------------------------------------------------------------------------
(* Answers of the serving path and episodes of the environment *)

NoServed ==
    [op |-> "none", status |-> "none", city |-> "", parameters |-> NoParameters,
     rules_applied |-> << >>, base_confidence |-> 0, multiplier |-> 0,
     adjusted_confidence |-> 0, confidence_score |-> 0, table |-> EmptyTable]

\* the list query_rules returned for (city, parameters)
Matched(city, parameters, ids) ==
    [NoServed EXCEPT !.op = "query_rules", !.status = "ok", !.city = city,
                     !.parameters = parameters, !.rules_applied = ids]

\* the final report of process_case_logic, with the base confidence of the
\* policy, the table the adjustment loaded and the multiplier it read from
\* the city's statistics (0 when the city has no entry and none is read)
CaseReport(city, parameters, ids, base, adjusted, table) ==
    [op |-> "run_case", status |-> "ok", city |-> city, parameters |-> parameters,
     rules_applied |-> ids, base_confidence |-> base,
     multiplier |-> IF city \in DOMAIN table THEN ConfidenceMultiplier(table, city) ELSE 0,
     adjusted_confidence |-> adjusted, confidence_score |-> Round3(adjusted),
     table |-> table]

\* HTTPException(500) of run_case_endpoint
CaseError(city, parameters) ==
    [NoServed EXCEPT !.op = "run_case", !.status = "error", !.city = city,
                     !.parameters = parameters]

NoEpisode ==
    [city |-> "", plot_size |-> 0, location |-> 0, road_width |-> 0,
     stepped |-> FALSE, action |-> 0, reward |-> 0, table |-> EmptyTable]

----------------------------------------------------------------------------
(* Initial states *)

RECURSIVE LiveRun(_, _, _, _, _)
\* the table after k more sequential process_feedback events of one kind
LiveRun(w, city, ft, action, k) ==
    IF k = 0 THEN w ELSE LiveRun(LiveUpdate(w, city, ft, action), city, ft, action, k - 1)

WarmCity == "Mumbai"
WarmReport == Report(3)

\* The deployment after ups approvals followed by downs rejections of
\* WarmReport for WarmCity, all submitted one after the other to POST /feedback
FeedbackAfter(ups, downs) ==
    /\ file = IF ups + downs = 0 THEN NoFile
              ELSE Saved(LiveRun(LiveRun(EmptyTable, WarmCity, "up", InferLive(WarmReport), ups),
                                 WarmCity, "down", InferLive(WarmReport), downs))
    /\ store = Rows(Row(WarmCity, "up", WarmReport), 2 * ups)
                 \o Rows(Row(WarmCity, "down", WarmReport), 2 * downs)
    /\ envw = EmptyTable
    /\ queue = << >>
    /\ pc = [p \in Procs |-> "idle"]
    /\ inst = [p \in Procs |-> EmptyTable]
    /\ req = [p \in Procs |-> NoReq]
    /\ resp = [p \in Procs |-> NoResp]
    /\ last = NoEvent
    /\ run = NoRun
    /\ n = 0

\* the golden records are loaded, the policy is loaded, nothing was served
ServingIdle ==
    /\ rules = RULES_DATA
    /\ agent = TRUE
    /\ served = NoServed
    /\ episode = NoEpisode

InitAfter(ups, downs) == FeedbackAfter(ups, downs) /\ ServingIdle

\* a fresh deployment: no table file, no feedback stored
Init == InitAfter(0, 0)

Quiet == queue = << >> /\ run.phase # "running" /\ \A p \in Procs : pc[p] = "idle"

----------------------------------------------------------------------------
(* Sequential operations *)

\* POST /feedback handled start to end: MCPClient.add_feedback, then a new
\* AdaptiveFeedbackSystem loads the table and process_feedback records the
\* feedback once more, updates the city's entry and saves the table.
PostFeedback(city, ft, r) ==
    /\ Quiet
    /\ n < MaxOps
    /\ LET w == AfsLoad(file)
           action == InferLive(r)
       IN  /\ store' = Append(Append(store, Row(city, ft, r)), Row(city, ft, r))
           /\ file' = Saved(LiveUpdate(w, city, ft, action))
           /\ last' = Event("live", city, ft, action, w)
    /\ resp' = [resp EXCEPT ![1] = Success(TRUE)]
    /\ run' = NoRun
    /\ n' = n + 1
    /\ UNCHANGED <<serving, envw, queue, pc, inst, req>>

\* MCPClient.add_feedback called on its own: the row is stored as given
AddFeedback(city, ft, r) ==
    /\ Quiet
    /\ n < MaxOps
    /\ store' = Append(store, Row(city, ft, r))
    /\ run' = NoRun
    /\ n' = n + 1
    /\ UNCHANGED <<serving, file, envw, queue, pc, inst, req, resp, last>>

\* train_city_adaptive_agent up to the query of sync_feedback_from_mcp_to_env:
\* a new CityAdaptiveEnv loads (or creates) the table, the sync reads all rows
SyncStart ==
    /\ Quiet
    /\ n < MaxOps
    /\ envw' = EnvLoad(file)
    /\ file' = EnvLoadFile(file)
    /\ queue' = store
    /\ run' = [phase |-> IF store = << >> THEN "done" ELSE "running",
               start |-> EnvLoad(file),
               again |-> run.phase = "done",
               learn |-> FALSE]
    /\ n' = n + 1
    /\ UNCHANGED <<serving, store, pc, inst, req, resp, last>>

\* one iteration of the sync loop: infer the action, update the env's table,
\* save it
SyncStep ==
    /\ run.phase = "running"
    /\ queue # << >>
    /\ LET fb == Head(queue)
           action == InferReplay(fb.full_output)
           w == ReplayUpdate(envw, fb.city, action, fb.feedback_type)
       IN  /\ envw' = w
           /\ file' = Saved(w)
           /\ last' = Event("replay", fb.city, fb.feedback_type, action, envw)
    /\ queue' = Tail(queue)
    /\ run' = [run EXCEPT !.phase = IF Tail(queue) = << >> THEN "done" ELSE "running"]
    /\ UNCHANGED <<serving, store, pc, inst, req, resp, n>>

Next ==
    \/ \E c \in Cities, ft \in EndpointTypes, r \in EndpointReports : PostFeedback(c, ft, r)
    \/ \E c \in Cities : AddFeedback(c, "other", NoReport)
    \/ SyncStart
    \/ SyncStep

Spec == Init /\ [][Next]_vars

----------------------------------------------------------------------------
(* The live path alone, from tables that approvals and rejections have    *)
(* driven towards the clamp                                               *)

WarmRuns == {<<0, 0>>, <<19, 1>>, <<1, 31>>}

InitLive == \E wr \in WarmRuns : InitAfter(wr[1], wr[2])

NextLive ==
    \E c \in Cities, ft \in EndpointTypes, r \in EndpointReports : PostFeedback(c, ft, r)

SpecLive == InitLive /\ [][NextLive]_vars

----------------------------------------------------------------------------
(* Both paths fed the same events: `file` holds the table of a run that    *)
(* ingests every event through process_feedback, `envw` the table of a run *)
(* that ingests it through update_city_weights_from_feedback.  Both start  *)
(* from the default table a new CityAdaptiveEnv has just written.          *)

\* the reports a stored row can carry when process_feedback accepted it
DictReports == {EmptyReport, Report(-1), Report(0), Report(1), Report(3)}

InitEquiv ==
    /\ file = Saved(EnvDefaults)
    /\ store = << >>
    /\ envw = EnvDefaults
    /\ queue = << >>
    /\ pc = [p \in Procs |-> "idle"]
    /\ inst = [p \in Procs |-> EmptyTable]
    /\ req = [p \in Procs |-> NoReq]
    /\ resp = [p \in Procs |-> NoResp]
    /\ last = NoEvent
    /\ run = NoRun
    /\ n = 0
    /\ ServingIdle

BothPaths(city, ft, r) ==
    /\ n < MaxOps
    /\ store' = Append(store, Row(city, ft, r))
    /\ file' = Saved(LiveUpdate(AfsLoad(file), city, ft, InferLive(r)))
    /\ envw' = ReplayUpdate(envw, city, InferReplay(r), ft)
    /\ last' = Event("both", city, ft, InferLive(r), AfsLoad(file))
    /\ n' = n + 1
    /\ UNCHANGED <<serving, queue, pc, inst, req, resp, run>>

NextEquiv == \E c \in Cities, ft \in EndpointTypes, r \in DictReports : BothPaths(c, ft, r)

SpecEquiv == InitEquiv /\ [][NextEquiv]_vars

----------------------------------------------------------------------------
(* POST /feedback handled by the threads of the server's pool, step by     *)
(* step: each access to the feedback table or to the table file is a step  *)

ConcRuns == {<<0, 0>>, <<4, 0>>}

\* the reports the concurrent requests carry: a mid and a high bucket
ConcReports == {Report(1), Report(3)}

InitConc == \E wr \in ConcRuns : InitAfter(wr[1], wr[2])

\* the request arrives and MCPClient.add_feedback stores its row
Begin(p, city, ft, r) ==
    /\ pc[p] = "idle"
    /\ n < MaxOps
    /\ req' = [req EXCEPT ![p] = Row(city, ft, r)]
    /\ store' = Append(store, Row(city, ft, r))
    /\ pc' = [pc EXCEPT ![p] = "begun"]
    /\ n' = n + 1
    /\ UNCHANGED <<serving, file, envw, queue, inst, resp, last, run>>

\* AdaptiveFeedbackSystem(): the new instance loads the table file
Load(p) ==
    /\ pc[p] = "begun"
    /\ inst' = [inst EXCEPT ![p] = AfsLoad(file)]
    /\ pc' = [pc EXCEPT ![p] = "loaded"]
    /\ UNCHANGED <<serving, file, store, envw, queue, req, resp, last, run, n>>

\* process_feedback steps 1-5: the row is stored again, the instance's
\* table is updated
Process(p) ==
    /\ pc[p] = "loaded"
    /\ store' = Append(store, req[p])
    /\ inst' = [inst EXCEPT ![p] = LiveUpdate(inst[p], req[p].city, req[p].feedback_type,
                                               InferLive(req[p].full_output))]
    /\ pc' = [pc EXCEPT ![p] = "processed"]
    /\ UNCHANGED <<serving, file, envw, queue, req, resp, last, run, n>>

\* process_feedback step 6 and the return: the whole table is written back
Save(p) ==
    /\ pc[p] = "processed"
    /\ file' = Saved(inst[p])
    /\ resp' = [resp EXCEPT ![p] = Success(TRUE)]
    /\ last' = Event("live", req[p].city, req[p].feedback_type,
                      InferLive(req[p].full_output), AfsLoad(file))
    /\ pc' = [pc EXCEPT ![p] = "idle"]
    /\ UNCHANGED <<serving, store, envw, queue, inst, req, run, n>>

NextConc ==
    \/ \E p \in Procs, c \in Cities, ft \in EndpointTypes, r \in ConcReports :
           Begin(p, c, ft, r)
    \/ \E p \in Procs : Load(p)
    \/ \E p \in Procs : Process(p)
    \/ \E p \in Procs : Save(p)

SpecConc == InitConc /\ [][NextConc]_vars

\* AdaptiveFeedbackSystem.get_city_statistics: the status it reports
Status(w, city) ==
    IF city \notin DOMAIN w THEN "No data yet"
    ELSE IF w[city].total_cases > ACTIVE_ABOVE THEN "Active"
    ELSE "Learning"

----------------------------------------------------------------------------
(* POST /feedback, one request at a time, where a step may raise *)

\* MCPClient.add_feedback raises: the outer handler answers HTTP 500
PostStoreFails(city, ft, r) ==
    /\ Quiet
    /\ n < MaxOps
    /\ resp' = [resp EXCEPT ![1] = Http500]
    /\ last' = Event("refused", city, ft, InferLive(r), AfsLoad(file))
    /\ n' = n + 1
    /\ UNCHANGED <<serving, file, store, envw, queue, pc, inst, req, run>>

\* the commit inside process_feedback raises, before the table is touched:
\* the inner handler catches it
PostProcessFails(city, ft, r) ==
    /\ Quiet
    /\ n < MaxOps
    /\ store' = Append(store, Row(city, ft, r))
    /\ resp' = [resp EXCEPT ![1] = Success(FALSE)]
    /\ last' = Event("unsaved", city, ft, InferLive(r), AfsLoad(file))
    /\ n' = n + 1
    /\ UNCHANGED <<serving, file, envw, queue, pc, inst, req, run>>

\* _save_reward_weights raises when it opens the table file: the inner
\* handler catches it
PostSaveFails(city, ft, r) ==
    /\ Quiet
    /\ n < MaxOps
    /\ store' = Append(Append(store, Row(city, ft, r)), Row(city, ft, r))
    /\ resp' = [resp EXCEPT ![1] = Success(FALSE)]
    /\ last' = Event("unsaved", city, ft, InferLive(r), AfsLoad(file))
    /\ n' = n + 1
    /\ UNCHANGED <<serving, file, envw, queue, pc, inst, req, run>>

NextFail ==
    \/ \E c \in Cities, ft \in EndpointTypes, r \in EndpointReports : PostFeedback(c, ft, r)
    \/ \E c \in Cities, ft \in EndpointTypes, r \in EndpointReports : PostStoreFails(c, ft, r)
    \/ \E c \in Cities, ft \in EndpointTypes, r \in EndpointReports : PostProcessFails(c, ft, r)
    \/ \E c \in Cities, ft \in EndpointTypes, r \in EndpointReports : PostSaveFails(c, ft, r)

SpecFail == Init /\ [][NextFail]_vars

\* process_feedback called one request at a time: it returns its summary, or
\* raises at the commit or at the save
NextDurable ==
    \/ \E c \in Cities, ft \in EndpointTypes, r \in ConcReports : PostFeedback(c, ft, r)
    \/ \E c \in Cities, ft \in EndpointTypes, r \in ConcReports : PostProcessFails(c, ft, r)
    \/ \E c \in Cities, ft \in EndpointTypes, r \in ConcReports : PostSaveFails(c, ft, r)

SpecDurable == Init /\ [][NextDurable]_vars

----------------------------------------------------------------------------
(* The serving path: POST /run_case *)

\* the probability the policy gives the action it chose
BaseConfidences == {3333, 5000, 8000, 9500, 10000}

\* the parameters of the cases submitted: CaseParameters requires all three
CaseParameters ==
    {Parameters(Given(20), Given(1500), Given("urban")),
     Parameters(Given(8), Given(600), Given("rural"))}

\* POST /run_case with the policy loaded: query_rules, the probability the
\* policy gives its action, adjust_confidence_score of a new
\* AdaptiveFeedbackSystem, the explainer's rounding, the report
RunCase(city, parameters, base) ==
    /\ Quiet
    /\ n < MaxOps
    /\ agent
    /\ served' = LET table == AfsLoad(file)
                 IN CaseReport(city, parameters, Ids(QueryRules(rules, city, parameters)),
                               base, AdjustConfidenceScore(table, base, city), table)
    /\ n' = n + 1
    /\ UNCHANGED <<file, store, envw, queue, pc, inst, req, resp, last, run,
                   rules, agent, episode>>

\* POST /run_case with state.rl_agent None: rl_agent.predict raises
\* AttributeError, run_case_endpoint answers HTTP 500
RunCaseNoAgent(city, parameters) ==
    /\ Quiet
    /\ n < MaxOps
    /\ ~ agent
    /\ served' = CaseError(city, parameters)
    /\ n' = n + 1
    /\ UNCHANGED <<file, store, envw, queue, pc, inst, req, resp, last, run,
                   rules, agent, episode>>

MaxCount == 20

\* a deployment after up to MaxCount POST /feedback requests for WarmCity,
\* started with or without the policy artifact
InitServe ==
    /\ \E ups \in 0 .. MaxCount, downs \in 0 .. MaxCount :
         ups + downs <= MaxCount /\ FeedbackAfter(ups, downs)
    /\ rules = RULES_DATA
    /\ agent \in BOOLEAN
    /\ served = NoServed
    /\ episode = NoEpisode

NextServe ==
    \/ \E c \in Cities, ps \in CaseParameters, b \in BaseConfidences : RunCase(c, ps, b)
    \/ \E c \in Cities, ps \in CaseParameters : RunCaseNoAgent(c, ps)

SpecServe == InitServe /\ [][NextServe]_vars

\* feedback and cases of a fresh deployment, one request at a time
ScenarioConfidences == {8000, 10000}

NextScenario ==
    \/ \E c \in Cities, ft \in EndpointTypes, r \in EndpointReports : PostFeedback(c, ft, r)
    \/ \E c \in Cities, ps \in CaseParameters, b \in ScenarioConfidences : RunCase(c, ps, b)

SpecScenario == Init /\ [][NextScenario]_vars

----------------------------------------------------------------------------
(* The matcher on its own: MCPClient.query_rules over several rules tables *)

QueryCities == {"Mumbai", "mumbai", "Pune", "Riverton", "%"}
RoadWidths == {8, 9, 18, 20, 27}
PlotSizes == {1000, 1001, 2500, 3000}
Locations == {"urban", "suburban", "rural"}

QueryParameters ==
    {Parameters(rw, ps, loc) :
        rw \in {NotGiven} \cup {Given(v) : v \in RoadWidths},
        ps \in {NotGiven} \cup {Given(v) : v \in PlotSizes},
        loc \in {NoLocationGiven} \cup {Given(v) : v \in Locations}}

InitMatch ==
    /\ FeedbackAfter(0, 0)
    /\ rules \in RuleTables
    /\ agent = TRUE
    /\ served = NoServed
    /\ episode = NoEpisode

\* one call of query_rules
QueryRulesCall(city, parameters) ==
    /\ served' = Matched(city, parameters, Ids(QueryRules(rules, city, parameters)))
    /\ UNCHANGED <<file, store, envw, queue, pc, inst, req, resp, last, run, n,
                   rules, agent, episode>>

NextMatch == \E c \in QueryCities, ps \in QueryParameters : QueryRulesCall(c, ps)

SpecMatch == InitMatch /\ [][NextMatch]_vars

----------------------------------------------------------------------------
(* The training process: sync, then episodes of CityAdaptiveEnv *)

TrainRuns == {<<0, 0>>, <<1, 0>>, <<0, 1>>, <<2, 1>>}
EpisodePlots == {1000, 2000, 3000}
EpisodeRoads == {12, 18, 24}
EpisodeLocations == 0 .. 2

InitTrain == \E wr \in TrainRuns : InitAfter(wr[1], wr[2])

\* CityAdaptiveEnv.reset of the env the last sync has filled; the episode
\* remembers the table of its env
Reset(city, plot_size, location, road_width) ==
    /\ run.phase = "done"
    /\ episode' = [city |-> city, plot_size |-> plot_size, location |-> location,
                   road_width |-> road_width, stepped |-> FALSE, action |-> 0,
                   reward |-> 0, table |-> envw]
    /\ UNCHANGED <<file, store, envw, queue, pc, inst, req, resp, last, run, n,
                   rules, agent, served>>

\* CityAdaptiveEnv.step of the env that was reset
Step(action) ==
    /\ run.phase = "done"
    /\ episode.city # ""
    /\ episode.table = envw
    /\ episode' = [episode EXCEPT
                     !.stepped = TRUE,
                     !.action = action,
                     !.reward = WeightedReward(envw, episode.city, episode.plot_size,
                                               episode.location, episode.road_width, action)]
    /\ UNCHANGED <<file, store, envw, queue, pc, inst, req, resp, last, run, n,
                   rules, agent, served>>

NextTrain ==
    \/ SyncStart
    \/ SyncStep
    \/ \E c \in Cities, ps \in EpisodePlots, loc \in EpisodeLocations, rw \in EpisodeRoads :
         Reset(c, ps, loc, rw)
    \/ \E a \in Actions : Step(a)

SpecTrain == InitTrain /\ [][NextTrain]_vars

----------------------------------------------------------------------------
(* MCPClient.add_feedback under concurrent requests: the Feedback object   *)
(* takes its timestamp when it is built, the row enters the table at the   *)
(* commit.  The sync reads the table as the query returns it.              *)

\* a feedback row with its timestamp column
Stamped(row, ts) ==
    [city |-> row.city, feedback_type |-> row.feedback_type,
     full_output |-> row.full_output, timestamp |-> ts]

\* Feedback(...) is built: timestamp = utcnow(), here the operation counter
Stamp(p, city, ft, r) ==
    /\ pc[p] = "idle"
    /\ run.phase # "running"
    /\ n < MaxOps
    /\ req' = [req EXCEPT ![p] = Stamped(Row(city, ft, r), n)]
    /\ pc' = [pc EXCEPT ![p] = "stamped"]
    /\ n' = n + 1
    /\ UNCHANGED <<serving, file, store, envw, queue, inst, resp, last, run>>

\* db.add and db.commit: the row is appended to the table
Commit(p) ==
    /\ pc[p] = "stamped"
    /\ store' = Append(store, req[p])
    /\ pc' = [pc EXCEPT ![p] = "idle"]
    /\ UNCHANGED <<serving, file, envw, queue, inst, req, resp, last, run, n>>

NextOrder ==
    \/ \E p \in Procs, c \in Cities, ft \in EndpointTypes, r \in ConcReports : Stamp(p, c, ft, r)
    \/ \E p \in Procs : Commit(p)
    \/ SyncStart
    \/ SyncStep

SpecOrder == Init /\ [][NextOrder]_vars

----------------------------------------------------------------------------
(* A retraining run: train_city_adaptive_agent from the new env to learn *)

\* train_city_adaptive_agent(sync_mcp_feedback=False) up to the callback: a
\* new CityAdaptiveEnv loads (or creates) the table, the sync is not called
TrainNoSync ==
    /\ Quiet
    /\ n < MaxOps
    /\ envw' = EnvLoad(file)
    /\ file' = EnvLoadFile(file)
    /\ run' = [phase |-> "skipped", start |-> EnvLoad(file), again |-> FALSE,
               learn |-> FALSE]
    /\ n' = n + 1
    /\ UNCHANGED <<serving, store, queue, pc, inst, req, resp, last>>

\* an exception inside the sync loop: the except clause prints it and the
\* sync returns, the rows left are not replayed
SyncFails ==
    /\ run.phase = "running"
    /\ queue' = << >>
    /\ run' = [run EXCEPT !.phase = "failed"]
    /\ UNCHANGED <<serving, file, store, envw, pc, inst, req, resp, last, n>>

\* model.learn starts on the env of this run
Learn ==
    /\ run.phase \in {"done", "skipped", "failed"}
    /\ ~ run.learn
    /\ run' = [run EXCEPT !.learn = TRUE]
    /\ UNCHANGED <<serving, file, store, envw, queue, pc, inst, req, resp, last, n>>

NextRetrain ==
    \/ SyncStart
    \/ SyncStep
    \/ SyncFails
    \/ TrainNoSync
    \/ Learn

SpecRetrain == InitTrain /\ [][NextRetrain]_vars

----------------------------------------------------------------------------
(* The replay path on its own: update_city_weights_from_feedback called on  *)
(* an env that started from the default table                               *)

RECURSIVE ReplayRun(_, _, _, _, _)
ReplayRun(w, city, action, ft, k) ==
    IF k = 0 THEN w ELSE ReplayRun(ReplayUpdate(w, city, action, ft), city, action, ft, k - 1)

\* earlier events of the env: approvals, then rejections, of action 2 for WarmCity
ReplayRuns == {<<0, 0>>, <<7, 0>>, <<0, 20>>}

InitReplay ==
    \E rr \in ReplayRuns :
        /\ envw = ReplayRun(ReplayRun(EnvDefaults, WarmCity, 2, "up", rr[1]),
                            WarmCity, 2, "down", rr[2])
        /\ file = Saved(envw)
        /\ store = << >>
        /\ queue = << >>
        /\ pc = [p \in Procs |-> "idle"]
        /\ inst = [p \in Procs |-> EmptyTable]
        /\ req = [p \in Procs |-> NoReq]
        /\ resp = [p \in Procs |-> NoResp]
        /\ last = NoEvent
        /\ run = NoRun
        /\ n = 0
        /\ ServingIdle

\* env.update_city_weights_from_feedback(city, action, feedback_type)
ReplayEvent(city, action, ft) ==
    /\ n < MaxOps
    /\ envw' = ReplayUpdate(envw, city, action, ft)
    /\ file' = Saved(ReplayUpdate(envw, city, action, ft))
    /\ last' = Event("replay", city, ft, action, envw)
    /\ n' = n + 1
    /\ UNCHANGED <<serving, store, queue, pc, inst, req, resp, run>>

NextReplay == \E c \in Cities, a \in Actions, ft \in EndpointTypes : ReplayEvent(c, a, ft)

SpecReplay == InitReplay /\ [][NextReplay]_vars

----------------------------------------------------------------------------
(* Cases served while the training script rebuilds the table: the server   *)
(* and the script are two processes on the one table file                  *)

\* POST /run_case between two iterations of the sync loop
RunCaseInSync(city, parameters, base) ==
    /\ run.phase = "running"
    /\ \A p \in Procs : pc[p] = "idle"
    /\ n < MaxOps
    /\ agent
    /\ served' = LET table == AfsLoad(file)
                 IN CaseReport(city, parameters, Ids(QueryRules(rules, city, parameters)),
                               base, AdjustConfidenceScore(table, base, city), table)
    /\ n' = n + 1
    /\ UNCHANGED <<file, store, envw, queue, pc, inst, req, resp, last, run,
                   rules, agent, episode>>

NextRebuild ==
    \/ SyncStart
    \/ SyncStep
    \/ \E c \in Cities, ps \in CaseParameters, b \in ScenarioConfidences : RunCase(c, ps, b)
    \/ \E c \in Cities, ps \in CaseParameters, b \in ScenarioConfidences :
         RunCaseInSync(c, ps, b)

SpecRebuild == InitTrain /\ [][NextRebuild]_vars

----------------------------------------------------------------------------
(* The table file under concurrent access: _save_reward_weights opens the  *)
(* file for writing, which empties it, and dumps the table afterwards      *)

\* the file between open(path, 'w') and the end of json.dump: what it holds
\* does not parse; `data` keeps the last table that was written whole
Torn(f) == [exists |-> TRUE, data |-> AfsLoad(f), torn |-> TRUE]

IsTorn(f) == "torn" \in DOMAIN f

\* AdaptiveFeedbackSystem(): json.load returns the table
LoadTable(p) ==
    /\ ~ IsTorn(file)
    /\ Load(p)

\* AdaptiveFeedbackSystem(): json.load raises on the file a writer has open;
\* the inner handler of feedback_endpoint answers without a summary
LoadTorn(p) ==
    /\ pc[p] = "begun"
    /\ IsTorn(file)
    /\ resp' = [resp EXCEPT ![p] = Success(FALSE)]
    /\ last' = Event("torn_read", req[p].city, req[p].feedback_type,
                      InferLive(req[p].full_output), file.data)
    /\ pc' = [pc EXCEPT ![p] = "idle"]
    /\ UNCHANGED <<serving, file, store, envw, queue, inst, req, run, n>>

\* _save_reward_weights: open(self.reward_table_path, 'w')
SaveOpen(p) ==
    /\ pc[p] = "processed"
    /\ file' = Torn(file)
    /\ pc' = [pc EXCEPT ![p] = "saving"]
    /\ UNCHANGED <<serving, store, envw, queue, inst, req, resp, last, run, n>>

\* _save_reward_weights: json.dump and close, then the handler returns.  On
\* a file another writer has filled since the open, the bytes of the two
\* dumps overlap: the result is this table or does not parse
SaveWrite(p) ==
    /\ pc[p] = "saving"
    /\ file' \in IF IsTorn(file) THEN {Saved(inst[p])}
                 ELSE {Saved(inst[p]), Torn(file)}
    /\ resp' = [resp EXCEPT ![p] = Success(TRUE)]
    /\ last' = Event("live", req[p].city, req[p].feedback_type,
                      InferLive(req[p].full_output), AfsLoad(file))
    /\ pc' = [pc EXCEPT ![p] = "idle"]
    /\ UNCHANGED <<serving, store, envw, queue, inst, req, run, n>>

\* CityAdaptiveEnv(): the file is missing or parses
EnvConstruct ==
    /\ ~ IsTorn(file)
    /\ n < MaxOps
    /\ envw' = EnvLoad(file)
    /\ file' = EnvLoadFile(file)
    /\ last' = Event("env_load", "", "", 0, AfsLoad(file))
    /\ n' = n + 1
    /\ UNCHANGED <<serving, store, queue, pc, inst, req, resp, run>>

\* CityAdaptiveEnv(): json.load raises, the except clause falls through to
\* the defaults, which are saved
EnvConstructTorn ==
    /\ IsTorn(file)
    /\ n < MaxOps
    /\ envw' = EnvDefaults
    /\ file' = Saved(EnvDefaults)
    /\ last' = Event("env_defaults", "", "", 0, file.data)
    /\ n' = n + 1
    /\ UNCHANGED <<serving, store, queue, pc, inst, req, resp, run>>

\* the reports the requests carry
TornReports == {Report(1)}

NextTorn ==
    \/ \E p \in Procs, c \in Cities, ft \in EndpointTypes, r \in TornReports :
           Begin(p, c, ft, r)
    \/ \E p \in Procs : LoadTable(p)
    \/ \E p \in Procs : LoadTorn(p)
    \/ \E p \in Procs : Process(p)
    \/ \E p \in Procs : SaveOpen(p)
    \/ \E p \in Procs : SaveWrite(p)
    \/ EnvConstruct
    \/ EnvConstructTorn

SpecTorn == InitConc /\ [][NextTorn]_vars

----------------------------------------------------------------------------
(* Properties *)

\* rows of the feedback table for a city, a feedback type and an inferred action
RowsOf(city, ft, action) ==
    Cardinality({i \in 1 .. Len(store) :
                    /\ store[i].city = city
                    /\ store[i].feedback_type = ft
                    /\ InferLive(store[i].full_output) = action})

RowsOfCity(city) ==
    Cardinality({i \in 1 .. Len(store) : store[i].city = city})

\* C1: the same events, in the same order, from the same defaults: the
\* table of the replay path equals the table of the live path.
C1_PathsAgree == file.data = envw

\* C2: a sync run that directly follows a completed sync run over the same
\* stored history leaves the persisted table as the first run left it.
C2_ReplayIdempotent ==
    (run.phase = "done" /\ run.again) => file.data = run.start

\* C3: once every handler has returned, each city's entry holds every
\* submission: total_cases counts them all (each submission stores two rows)
\* and every weight carries every delta.
C3_NoLostUpdate ==
    (\A p \in Procs : pc[p] = "idle") =>
        \A c \in Cities :
            LET e == EntryOf(file.data, c)
            IN  /\ 2 * e.total_cases = RowsOfCity(c)
                /\ \A a \in Actions :
                       2 * (e.action_weights[a] - Unit)
                         = RowsOf(c, "up", a) * DELTA_UP - RowsOf(c, "down", a) * DELTA_DOWN

\* C4: a submission whose table write did not happen is not answered with
\* status "success".
C4_NoSuccessWithoutWrite ==
    last.op = "unsaved" => resp[1].status # "success"

\* C5: on the live path every action weight of every city stays within
\* [0.1, 2.0].
C5_LiveWeightsClamped ==
    \A c \in DOMAIN file.data : \A a \in Actions :
        /\ file.data[c].action_weights[a] >= WEIGHT_MIN
        /\ file.data[c].action_weights[a] <= WEIGHT_MAX

\* an approval whose +0.05 would have passed 2.0 was cut to 2.0
C5_Witness ==
    /\ last.op = "live"
    /\ last.ft = "up"
    /\ EntryOf(last.before, last.city).action_weights[last.action] + DELTA_UP > WEIGHT_MAX
    /\ file.data[last.city].action_weights[last.action] = WEIGHT_MAX

\* C6: one live ingest event adds 1 to total_cases, 1 to exactly one of the
\* two feedback counters, and replaces the inferred action's weight by
\* clamp(old + 0.05) on approval, clamp(old - 0.03) on rejection.
C6_IngestEvent ==
    last.op = "live" =>
        LET b == EntryOf(last.before, last.city)
            e == file.data[last.city]
            old == b.action_weights[last.action]
            new == e.action_weights[last.action]
        IN  /\ e.total_cases = b.total_cases + 1
            /\ last.ft = "up" =>
                  /\ e.positive_feedback_count = b.positive_feedback_count + 1
                  /\ e.negative_feedback_count = b.negative_feedback_count
                  /\ new = Max(WEIGHT_MIN, Min(WEIGHT_MAX, old + DELTA_UP))
            /\ last.ft = "down" =>
                  /\ e.negative_feedback_count = b.negative_feedback_count + 1
                  /\ e.positive_feedback_count = b.positive_feedback_count
                  /\ new = Max(WEIGHT_MIN, Min(WEIGHT_MAX, old - DELTA_DOWN))

\* a rejection whose -0.03 would have passed 0.1 was cut to 0.1
C6_Witness ==
    /\ last.op = "live"
    /\ last.ft = "down"
    /\ EntryOf(last.before, last.city).action_weights[last.action] - DELTA_DOWN < WEIGHT_MIN
    /\ file.data[last.city].action_weights[last.action] = WEIGHT_MIN
    /\ file.data[last.city].negative_feedback_count
          = last.before[last.city].negative_feedback_count + 1

\* C7: every city of the persisted table has
\* total_cases = positive_feedback_count + negative_feedback_count.
C7_TotalIsSum ==
    \A c \in DOMAIN file.data :
        file.data[c].total_cases
          = file.data[c].positive_feedback_count + file.data[c].negative_feedback_count

\* C8: after an ingest event, live or replayed, the city's base_reward is
\* 0.5 + positive_feedback_count / total_cases, within [0.5, 1.5].
C8_BaseRewardTracksApproval ==
    last.op \in {"live", "replay"} =>
        LET e == file.data[last.city]
        IN  /\ e.base_reward
                  = (Unit \div 2) + (e.positive_feedback_count * Unit) \div e.total_cases
            /\ e.base_reward >= Unit \div 2
            /\ e.base_reward <= Unit + Unit \div 2

\* C9: an ingest event for one city, live or replayed, leaves the entry of
\* every other city as it was (present or absent, and every field).
C9_SegmentIsolation ==
    last.op \in {"live", "replay"} =>
        \A b \in Cities \ {last.city} :
            /\ (b \in DOMAIN file.data) <=> (b \in DOMAIN last.before)
            /\ b \in DOMAIN file.data => file.data[b] = last.before[b]

\* a replayed approval for one city while another city holds feedback
C9_Witness ==
    /\ last.op = "replay"
    /\ last.ft = "up"
    /\ file.data[last.city].action_weights[last.action]
          > EntryOf(last.before, last.city).action_weights[last.action]
    /\ \E b \in Cities \ {last.city} :
          b \in DOMAIN file.data /\ file.data[b].total_cases > 0

\* C10: a city with total_cases <= 5 is reported Learning, with
\* total_cases >= 6 Active, and a city the persisted table reports Active is
\* not reported Learning after any later step.
C10_StatusNeverRegresses ==
    [][\A c \in Cities :
          /\ c \in DOMAIN file.data =>
                (Status(file.data, c) = "Active") = (file.data[c].total_cases >= 6)
          /\ Status(AfsLoad(file), c) = "Active" => Status(AfsLoad(file'), c) # "Learning"]_vars


----------------------------------------------------------------------------
(* Serving path, matcher and training environment *)

\* C11: the multiplier adjust_confidence_score reads for a city is a function
\* of p = positive / max(1, total) alone: 1.10 if p >= 0.85, 1.00 if
\* 0.70 <= p < 0.85, 0.90 if 0.50 <= p < 0.70 and 0.80 if p < 0.50, whenever
\* positive <= total
C11_MultiplierBands ==
    (served.op = "run_case" /\ served.status = "ok" /\ served.city \in DOMAIN served.table) =>
        LET e == served.table[served.city]
            pos == e.positive_feedback_count
            tot == IF e.total_cases >= 1 THEN e.total_cases ELSE 1
            m == served.multiplier
        IN  pos <= e.total_cases =>
              /\ (100 * pos >= 85 * tot) => m = 11000
              /\ (100 * pos >= 70 * tot /\ 100 * pos < 85 * tot) => m = 10000
              /\ (100 * pos >= 50 * tot /\ 100 * pos < 70 * tot) => m = 9000
              /\ (100 * pos < 50 * tot) => m = 8000

\* a case served for a city with 7 approvals in 10 events: p is exactly 0.70
C11_Witness ==
    /\ served.op = "run_case" /\ served.status = "ok"
    /\ served.city \in DOMAIN served.table
    /\ served.table[served.city].positive_feedback_count = 7
    /\ served.table[served.city].total_cases = 10
    /\ served.multiplier = 10000

\* C12: for a city with an entry the adjusted confidence is
\* min(1.0, raw * multiplier), and the confidence of a case report is never
\* above 1.0
C12_AdjustedCapped ==
    (served.op = "run_case" /\ served.status = "ok") =>
        /\ served.confidence_score <= Unit
        /\ served.city \in DOMAIN served.table =>
              LET product == (served.base_confidence
                                * ConfidenceMultiplier(served.table, served.city)) \div Unit
              IN served.adjusted_confidence = IF product > Unit THEN Unit ELSE product

\* raw confidence 0.95 boosted by 1.10 and cut back to 1.0
C12_Witness ==
    /\ served.op = "run_case" /\ served.status = "ok"
    /\ served.city \in DOMAIN served.table
    /\ served.base_confidence = 9500
    /\ served.multiplier = 11000
    /\ served.adjusted_confidence = Unit
    /\ served.confidence_score = Unit

\* the rows POST /feedback stores for one event
Posted(city, ft, r) == Rows(Row(city, ft, r), 2)

\* C13: for a city absent from the table, one approval of a report with three
\* rules (action 2) gives weights [1.0, 1.0, 1.05], positive 1, total 1 and
\* multiplier 1.10; a following rejection of the same action gives
\* [1.0, 1.0, 1.02], negative 1, total 2, approval rate 50% and multiplier
\* 0.90, and a raw confidence of 0.80 is adjusted to 0.72
C13_Scenario ==
    \A c \in Cities :
        LET t == AfsLoad(file)
            servedNow == /\ served.op = "run_case" /\ served.status = "ok"
                         /\ served.city = c /\ served.table = t
        IN  /\ store = Posted(c, "up", Report(3)) =>
                  /\ c \in DOMAIN t
                  /\ t[c].action_weights = [a \in Actions |-> IF a = 2 THEN 10500 ELSE 10000]
                  /\ t[c].positive_feedback_count = 1
                  /\ t[c].total_cases = 1
                  /\ servedNow => served.multiplier = 11000
            /\ store = Posted(c, "up", Report(3)) \o Posted(c, "down", Report(3)) =>
                  /\ c \in DOMAIN t
                  /\ t[c].action_weights = [a \in Actions |-> IF a = 2 THEN 10200 ELSE 10000]
                  /\ t[c].negative_feedback_count = 1
                  /\ t[c].total_cases = 2
                  /\ 100 * t[c].positive_feedback_count = 50 * t[c].total_cases
                  /\ servedNow => served.multiplier = 9000
                  /\ (servedNow /\ served.base_confidence = 8000) =>
                        served.adjusted_confidence = 7200

\* Riverton approved once, rejected once, then served a case of raw
\* confidence 0.80
C13_Witness ==
    /\ store = Posted("Riverton", "up", Report(3)) \o Posted("Riverton", "down", Report(3))
    /\ served.op = "run_case" /\ served.status = "ok"
    /\ served.city = "Riverton"
    /\ served.table = AfsLoad(file)
    /\ served.base_confidence = 8000
    /\ served.adjusted_confidence = 7200

\* the rule id is in the list the last query returned
InResult(id) == \E j \in 1 .. Len(served.rules_applied) : served.rules_applied[j] = id

\* the rows of the rules table the last query's city filter selects
Selected == {i \in 1 .. Len(rules) : ILike(rules[i].city, served.city)}

\* C14: a value equal to min satisfies a road-width range and a plot-area
\* range; a value equal to max satisfies a plot-area range but not a
\* road-width range, so a road width on the shared boundary of two adjacent
\* bands matches exactly one of them
C14_Boundaries ==
    served.op = "query_rules" =>
        LET ps == served.parameters IN
        /\ \A i \in Selected :
              LET r == rules[i] IN
              /\ ( /\ ps.road_width.present /\ r.road_width_m.kind = "range"
                   /\ ps.road_width.value = r.road_width_m.min
                   /\ r.road_width_m.min < r.road_width_m.max
                   /\ ~ PlotFails(r, ps) /\ ~ LocationFails(r, ps) ) => InResult(r.id)
              /\ ( /\ ps.plot_size.present /\ r.plot_area_sqm.kind = "range"
                   /\ ps.plot_size.value \in {r.plot_area_sqm.min, r.plot_area_sqm.max}
                   /\ ~ RoadFails(r, ps) /\ ~ LocationFails(r, ps) ) => InResult(r.id)
              /\ ( /\ ps.road_width.present /\ r.road_width_m.kind = "range"
                   /\ ps.road_width.value = r.road_width_m.max ) => ~ InResult(r.id)
        /\ \A i, k \in Selected :
              ( /\ ps.road_width.present
                /\ rules[i].road_width_m.kind = "range" /\ rules[k].road_width_m.kind = "range"
                /\ rules[i].road_width_m.max = rules[k].road_width_m.min
                /\ ps.road_width.value = rules[i].road_width_m.max )
              => ~ (InResult(rules[i].id) /\ InResult(rules[k].id))

\* C15: query_rules returns a rule of the city if and only if no condition
\* key present both in the rule's conditions and in the parameters fails: a
\* key the rule lacks does not exclude it, a parameter no rule of the city
\* constrains filters nothing, and a city without rules gets an empty list
C15_MatchIff ==
    served.op = "query_rules" =>
        LET ps == served.parameters
            RoadOk(r) == (ps.road_width.present /\ r.road_width_m.kind # "none")
                            => ~ RoadFails(r, ps)
            PlotOk(r) == (ps.plot_size.present /\ r.plot_area_sqm.kind # "none")
                            => ~ PlotFails(r, ps)
            LocationOk(r) == (ps.location.present /\ r.location.kind # "none")
                            => ~ LocationFails(r, ps)
            Without(key) == Ids(QueryRules(rules, served.city, [ps EXCEPT ![key] =
                                IF key = "location" THEN NoLocationGiven ELSE NotGiven]))
        IN
        /\ served.status = "ok"
        /\ \A i \in Selected :
              InResult(rules[i].id) <=> (RoadOk(rules[i]) /\ PlotOk(rules[i]) /\ LocationOk(rules[i]))
        /\ \A j \in 1 .. Len(served.rules_applied) :
              \E i \in Selected : rules[i].id = served.rules_applied[j]
        /\ (\A i \in Selected : rules[i].road_width_m.kind = "none")
              => served.rules_applied = Without("road_width")
        /\ (\A i \in Selected : rules[i].plot_area_sqm.kind = "none")
              => served.rules_applied = Without("plot_size")
        /\ (\A i \in Selected : rules[i].location.kind = "none")
              => served.rules_applied = Without("location")
        /\ Selected = {} => served.rules_applied = << >>

\* Mumbai queried with all three keys over the golden records: the FSI rule,
\* which has no plot condition, is returned; the open-space rule fails on
\* the plot size
C15_Witness ==
    /\ served.op = "query_rules"
    /\ rules = RULES_DATA
    /\ served.city = "Mumbai"
    /\ served.parameters = Parameters(Given(20), Given(3000), Given("urban"))
    /\ served.rules_applied = <<"MUM-FSI-SUBURBS-R18-27">>

\* the position of a rule id in the rules table
Pos(id) == CHOOSE i \in 1 .. Len(rules) : rules[i].id = id

\* C16: the list query_rules returns holds every rule id at most once, also
\* for a rule satisfied through two condition keys, and in the order in which
\* the rules were first matched, which is the order of the table
C16_OnceInOrder ==
    served.op = "query_rules" =>
        \A j, k \in 1 .. Len(served.rules_applied) :
            j < k => /\ served.rules_applied[j] # served.rules_applied[k]
                     /\ Pos(served.rules_applied[j]) < Pos(served.rules_applied[k])

\* the Pune setback rule satisfied on road width and on plot size, returned
\* once, after the Pune rule that precedes it in the table
C16_Witness ==
    /\ served.op = "query_rules"
    /\ rules = ADJACENT_RULES \o RULES_DATA
    /\ served.city = "Pune"
    /\ served.parameters = Parameters(Given(9), Given(1000), NoLocationGiven)
    /\ served.rules_applied = <<"PUNE-ROAD-9", "PUNE-SETBACK-001">>

\* C17: with state.rl_agent None a case submission does not fail: it falls
\* back to the default and still returns a report
C17_FallbackReport ==
    (~ agent /\ served.op = "run_case") => served.status = "ok"

\* C18: the reward of step is oracle reward x base_reward of the current city
\* x action weight of the chosen action, the oracle reward being 10.0 for the
\* optimal action, 2.0 for an action one level away and -5.0 otherwise, and
\* both factors being 1.0 for a city absent from the table
C18_StepReward ==
    episode.stepped =>
        LET optimal == OptimalAction(episode.plot_size, episode.location, episode.road_width)
            distance == IF episode.action >= optimal THEN episode.action - optimal
                        ELSE optimal - episode.action
            oracle == IF distance = 0 THEN 10 ELSE IF distance = 1 THEN 2 ELSE 0 - 5
            known == episode.city \in DOMAIN episode.table
            base == IF known THEN episode.table[episode.city].base_reward ELSE Unit
            weight == IF known THEN episode.table[episode.city].action_weights[episode.action]
                      ELSE Unit
        IN episode.reward = oracle * ((base * weight) \div Unit)

\* a step for a city whose base_reward and action weight both differ from 1.0
C18_Witness ==
    /\ episode.stepped
    /\ episode.city \in DOMAIN episode.table
    /\ episode.table[episode.city].base_reward # Unit
    /\ episode.table[episode.city].action_weights[episode.action] # Unit
    /\ episode.reward < 0

C20_RebuildFromHistory ==
    run.phase = "done" =>
        \A c \in Cities : EntryOf(envw, c).total_cases = RowsOfCity(c)

----------------------------------------------------------------------------
(* Rebuild, retraining and concurrent access *)

\* C21: the sync applies the stored events in non-decreasing timestamp
\* order: of two events still to be replayed, the one with the smaller
\* timestamp is applied first
C21_TimestampOrder ==
    run.phase = "running" =>
        \A i, j \in 1 .. Len(queue) :
            i < j => queue[i].timestamp <= queue[j].timestamp

\* C22: in every retraining run model.learn starts only after the replay of
\* the stored history has finished successfully, never after a sync that was
\* switched off or that raised
C22_SyncBeforeLearn == run.learn => run.phase = "done"

\* C23: when two instances have each answered one submission, for two
\* different cities, the persisted table counts every stored row of both
\* cities (each submission stores two rows)
C23_PerKeyAtomic ==
    ((\A p \in Procs : pc[p] = "idle" /\ resp[p] = Success(TRUE))
        /\ req[1].city # req[2].city)
    => \A p \in Procs :
          2 * EntryOf(AfsLoad(file), req[p].city).total_cases = RowsOfCity(req[p].city)

\* C25: for the row ingested last, the live path and the replay path infer
\* the same action, given by three buckets: more than two rules shown -> 2,
\* one or two -> 1, none (no rules, no rules_applied field, empty report) -> 0
C25_SameBuckets ==
    store # << >> =>
        LET r == store[Len(store)].full_output
            k == IF r.shape = "dict" THEN r.rules ELSE 0
            bucket == IF k > 2 THEN 2 ELSE IF k > 0 THEN 1 ELSE 0
        IN  /\ last.action = bucket
            /\ InferLive(r) = bucket
            /\ InferReplay(r) = bucket

\* C27: every accepted POST /feedback adds exactly one record to the
\* feedback store (every step of the live specification is one accepted POST)
C27_OneRecordPerPost ==
    [][last'.op = "live" => Len(store') = Len(store) + 1]_vars

\* C26: starting from the defaults, after any sequence of events ingested by
\* update_city_weights_from_feedback every action weight of the env's table
\* lies in [0.1, 2.0]
C26_ReplayBounds ==
    \A c \in DOMAIN envw : \A a \in Actions :
        /\ envw[c].action_weights[a] >= WEIGHT_MIN
        /\ envw[c].action_weights[a] <= WEIGHT_MAX

\* C28: an event with action a changes only action_weights[a] of its city:
\* the other weights of the entry are the same before and after (replay path)
C28_OnlyActionWeight ==
    last.op = "replay" =>
        \A b \in Actions \ {last.action} :
            envw[last.city].action_weights[b]
                = EntryOf(last.before, last.city).action_weights[b]

\* C24: while a sync is replaying, the table a served case has read is never
\* the env's table after some, but not all, of the stored events
C24_NoHalfRebuiltRead ==
    (run.phase = "running" /\ served.op = "run_case" /\ served.status = "ok"
        /\ envw # run.start)
    => served.table # envw

\* C29: a case served for a city whose entry has total_cases = 0, or that has
\* no entry, carries the raw confidence unchanged
C29_NoDataNoAdjustment ==
    (served.op = "run_case" /\ served.status = "ok"
        /\ EntryOf(served.table, served.city).total_cases = 0)
    => served.adjusted_confidence = served.base_confidence

\* C30: no reader finds the table file partially written, and a
\* CityAdaptiveEnv that starts from the default table replaces no persisted
\* table with non-zero counters
C30_LoadNeverDestroys ==
    /\ last.op # "torn_read"
    /\ last.op = "env_defaults" =>
          \A c \in DOMAIN last.before : last.before[c].total_cases = 0

=============================================================================
